---- MODULE Spec2Model ----
(***************************************************************************)
(* Billing / metering core of Logers.Watch.                                *)
(*                                                                         *)
(* The model follows backend/src/modules/billing/service.ts (the second,   *)
(* complete BillingService of that file, lines 278-646), the billing       *)
(* worker, the billing HTTP routes and the billing WebSocket handlers.     *)
(*                                                                         *)
(* Every async function is a sequence of atomic steps, one per awaited     *)
(* Redis / Prisma call; a request context is a thread with a program       *)
(* counter pc[t], its locals loc[t] and a stack of return labels for the   *)
(* nested calls (endSession -> settleToDatabase, updateHeartbeat ->        *)
(* endSession -> startSession, ...).                                       *)
(*                                                                         *)
(* Money is counted in units of COST_PER_REQUEST, time in clock ticks of   *)
(* one minute.  Of a Redis key's expiry the state keeps the time to live    *)
(* its last EXPIRE / SETEX gave it, and each call keeps the keys whose      *)
(* expiry it has set; SESSION_TTL_SECONDS is far beyond the bounded clock,  *)
(* so no key lapses within a run.  The read-through user/creator caches     *)
(* are not part of the state.                                               *)
(***************************************************************************)
EXTENDS Integers, Sequences, FiniteSets, TLC

(* ----------------------------- bounds --------------------------------- *)
\* concurrent request contexts
NThreads == 2
\* largest initial durable balance, in units of COST_PER_REQUEST
MaxBalance == 2
\* deductForRequest calls started in one run
MaxCharges == 3
\* settleToDatabase calls started directly (route / timer) in one run
MaxSettles == 2
\* clock ticks in one run
MaxTime == 3
\* times the durable store becomes unreachable in one run
MaxFailures == 1

(* ------------------------- program constants -------------------------- *)
\* COST_PER_REQUEST, the unit of money of the model
COST_PER_REQUEST == 1
\* SETTLEMENT_INTERVAL_MS (10 minutes) in ticks
SETTLEMENT_INTERVAL_MS == 10
\* HEARTBEAT_TIMEOUT_MS (2 minutes) in ticks
HEARTBEAT_TIMEOUT_MS == 2
\* SESSION_TTL_SECONDS (24 hours) in ticks
SESSION_TTL_SECONDS == 1440

Users == {"u1"}
\* a user id without a row in the User table
UnknownUser == "u0"
UserIds == Users \cup {UnknownUser}
Videos == {"vA", "vB"}
Creators == {"cA", "cB"}
\* a video id the catalog does not know
UnknownVideo == "vX"

\* videoService.findByVideoId: the creator of a known video, "null" otherwise
findByVideoId(v) ==
  CASE v = "vA" -> "cA"
    [] v = "vB" -> "cB"
    [] OTHER -> "null"

Threads == 1 .. NThreads
\* the context that makes its calls one after the other
SeqCaller == 0
\* the billing worker's interval callback
Reaper == -1
AllThreads == Threads \cup {SeqCaller, Reaper}

VARIABLES
  pending,         \* Redis: per-user pending deduction counter
  pendingWT,       \* Redis: per-creator pending watch time counter
  session,         \* Redis: per-user WatchSession blob (NoSession: key absent)
  heartbeat,       \* Redis: per-user last heartbeat (-1: key absent)
  activeSessions,  \* Redis: set of user ids with an active session
  expiry,          \* Redis: per key, the time to live it was given
  balance,         \* Postgres: user.balance
  watchTime,       \* Postgres: creator.watchTime
  amountEarned,    \* Postgres: creator.amountEarned
  now,             \* Date.now()
  dbUp,            \* whether Prisma calls succeed
  conn,            \* activeConnections: the user's WebSocket connection entry
  pc,              \* per thread: the await it is at
  loc,             \* per thread: locals
  admitted,        \* history: charges admitted per user
  charges,         \* history: deductForRequest calls started
  settles,         \* history: direct settleToDatabase calls started
  initBalance,     \* history: the balance at the start
  dbFailures,      \* history: times the durable store became unreachable
  watched,         \* history: ticks each creator's video had the live session
  last             \* history: the sequential caller's last finished call

fast == <<pending, pendingWT, session, heartbeat, activeSessions, expiry>>
durable == <<balance, watchTime, amountEarned>>
hist == <<admitted, charges, settles, initBalance, dbFailures, watched,
          last>>
vars == <<pending, pendingWT, session, heartbeat, activeSessions, expiry,
          balance, watchTime, amountEarned, now, dbUp, conn, pc, loc,
          admitted, charges, settles, initBalance, dbFailures, watched, last>>

(* ------------------------------ records -------------------------------- *)
\* the session key is absent
NoSession ==
  [videoId |-> "null", creatorId |-> "null", startTime |-> 0,
   lastSettlementTime |-> 0, totalRequests |-> 0]

\* WatchSession as startSession builds it
WatchSession(v, c, t0) ==
  [videoId |-> v, creatorId |-> c, startTime |-> t0,
   lastSettlementTime |-> t0, totalRequests |-> 0]

\* no result yet
NoResult ==
  [kind |-> "none", success |-> FALSE, amountSettled |-> 0,
   watchTimeSettled |-> 0, error |-> "", shouldSettle |-> FALSE]

\* SettlementResult
SettlementResult(ok, amt, wt, err) ==
  [kind |-> "settlement", success |-> ok, amountSettled |-> amt,
   watchTimeSettled |-> wt, error |-> err, shouldSettle |-> FALSE]

\* the result of deductForRequest; amountSettled carries newPendingDeduction
DeductResult(ok, np, err) ==
  [kind |-> "deduct", success |-> ok, amountSettled |-> np,
   watchTimeSettled |-> 0, error |-> err, shouldSettle |-> FALSE]

\* the result of startSession / updateHeartbeat
SessionResult(ok, err, due) ==
  [kind |-> "session", success |-> ok, amountSettled |-> 0,
   watchTimeSettled |-> 0, error |-> err, shouldSettle |-> due]

\* a route's error response (400)
BadRequest(err) ==
  [kind |-> "http400", success |-> FALSE, amountSettled |-> 0,
   watchTimeSettled |-> 0, error |-> err, shouldSettle |-> FALSE]

\* endSession's null
NullResult ==
  [kind |-> "null", success |-> FALSE, amountSettled |-> 0,
   watchTimeSettled |-> 0, error |-> "", shouldSettle |-> FALSE]

\* an exception that left the function
Thrown ==
  [kind |-> "thrown", success |-> FALSE, amountSettled |-> 0,
   watchTimeSettled |-> 0, error |-> "thrown", shouldSettle |-> FALSE]

\* the pending deduction is added to the balance
BillingStatus_Added(pd, sess, bal) ==
  [kind |-> "status", success |-> TRUE, amountSettled |-> 0,
   watchTimeSettled |-> 0, error |-> "", shouldSettle |-> FALSE,
   pendingDeduction |-> pd, activeSession |-> sess, dbBalance |-> bal,
   effectiveBalance |-> bal + pd]

\* BillingStatus as getBillingStatus returns it
BillingStatus(pd, sess, bal) ==
  [kind |-> "status", success |-> TRUE, amountSettled |-> 0,
   watchTimeSettled |-> 0, error |-> "", shouldSettle |-> FALSE,
   pendingDeduction |-> pd, activeSession |-> sess, dbBalance |-> bal,
   effectiveBalance |-> bal - pd]

\* the response of the segment route: its status, whether the segment file
\* was looked up, and whether its content was returned
HttpResponse(status, err, touched, content) ==
  [kind |-> "http", success |-> status = 200, amountSettled |-> 0,
   watchTimeSettled |-> 0, error |-> err, shouldSettle |-> FALSE,
   status |-> status, fileTouched |-> touched, served |-> content]

\* the user's entry in activeConnections (open: the entry exists; session,
\* timer: its fields) and the user's newest socket (sock: it is open;
\* sockSession: a session was started over it and not ended over it)
Connection(entry, sess, timer, sock, sockSess) ==
  [open |-> entry, session |-> sess, timer |-> timer, sock |-> sock,
   sockSession |-> sockSess]

\* no entry, no socket
NoConn == Connection(FALSE, FALSE, "none", FALSE, FALSE)

\* no call has finished yet
NoEntry ==
  [op |-> "none", u |-> "u1", c |-> "null", res |-> NoResult,
   balance |-> [u \in Users |-> 0], watchTime |-> [c \in Creators |-> 0],
   amountEarned |-> [c \in Creators |-> 0]]

\* thread locals when the thread runs nothing
Blank ==
  [op |-> "none", u |-> "u1", v |-> "null", c |-> "null", np |-> 0, pd |-> 0,
   pw |-> 0, wts |-> 0, sess |-> NoSession, tnow |-> 0, stack |-> <<>>,
   res |-> NoResult, todo |-> {}, prev |-> NoEntry, bal |-> 0,
   charge |-> NoResult, push |-> "none", refreshed |-> {}]

\* cache.get(sessionKey): the session of a user id, none for an unknown one
SessionOf(u) == IF u \in Users THEN session[u] ELSE NoSession

\* redis.get(heartbeatKey): the heartbeat of a user id, none for an unknown
\* one
HeartbeatOf(u) == IF u \in Users THEN heartbeat[u] ELSE -1

Idle(t) == pc[t] = "idle"
AllIdle == \A t \in AllThreads : Idle(t)

(* ------------------------------ key expiry ----------------------------- *)
\* redis.ttl of a key that does not exist
NoKey == -2
\* redis.ttl of a key that has no expiry
NoExpiry == -1

\* no key of the fast ledger exists
NoKeys ==
  [pending |-> [u \in UserIds |-> NoKey],
   pendingWT |-> [c \in Creators |-> NoKey],
   session |-> [u \in Users |-> NoKey],
   heartbeat |-> [u \in Users |-> NoKey],
   activeSessions |-> NoKey]

\* redis.incrbyfloat, then redis.ttl: incrbyfloat creates a missing key
\* without expiry and keeps the expiry of an existing one
TtlAfterIncr(e) == IF e = NoKey THEN NoExpiry ELSE e

\* if (ttl === -1) redis.expire(key, SESSION_TTL_SECONDS)
ExpireIfNew(e) ==
  IF TtlAfterIncr(e) = NoExpiry THEN SESSION_TTL_SECONDS ELSE e

\* the keys whose expiry the call has set, after incrbyfloat, ttl and the
\* conditional expire on the key named k
RefreshedIfNew(done, e, k) ==
  IF TtlAfterIncr(e) = NoExpiry THEN done \cup {k} ELSE done

\* redis.sadd creates a missing set without expiry
AfterSadd(e) == IF e = NoKey THEN NoExpiry ELSE e

\* redis.srem removes the set's key with its last member
AfterSrem(e, members) == IF members = {} THEN NoKey ELSE e

(* --------------------------- call and return --------------------------- *)
\* a function returns r: to the caller's next label, or out of the handler
Return(t, r) ==
  IF loc[t].stack = <<>>
  THEN /\ pc' = [pc EXCEPT ![t] = "done"]
       /\ loc' = [loc EXCEPT ![t].res = r]
  ELSE /\ pc' = [pc EXCEPT ![t] = Head(loc[t].stack)]
       /\ loc' = [loc EXCEPT ![t].res = r, ![t].stack = Tail(loc[t].stack)]

\* a function returns r after a write that set the expiry of the key named k
ReturnRefreshed(t, r, k) ==
  IF loc[t].stack = <<>>
  THEN /\ pc' = [pc EXCEPT ![t] = "done"]
       /\ loc' = [loc EXCEPT ![t].res = r, ![t].refreshed = @ \cup {k}]
  ELSE /\ pc' = [pc EXCEPT ![t] = Head(loc[t].stack)]
       /\ loc' = [loc EXCEPT ![t].res = r, ![t].stack = Tail(loc[t].stack),
                             ![t].refreshed = @ \cup {k}]

\* what is kept of a finished call: its arguments, its result and the
\* durable values it left
Entry(t) ==
  [op |-> loc[t].op, u |-> loc[t].u, c |-> loc[t].c, res |-> loc[t].res,
   balance |-> balance, watchTime |-> watchTime, amountEarned |-> amountEarned]

\* the handler's response has been sent: the context is free again
Finish(t) ==
  /\ pc[t] = "done"
  /\ pc' = [pc EXCEPT ![t] = "idle"]
  /\ loc' = [loc EXCEPT ![t] = Blank]
  /\ last' = IF t = SeqCaller THEN Entry(t) ELSE last
  /\ UNCHANGED <<fast, durable, now, dbUp, conn, admitted, charges, settles,
                 initBalance, dbFailures, watched>>

\* a context may start a call
MayCall(t) == Idle(t)

\* the locals of a starting call; the sequential caller remembers the call
\* it made before
Locals(t) == IF t = SeqCaller THEN [Blank EXCEPT !.prev = last] ELSE Blank

(* ------------------------- deductForRequest ---------------------------- *)
\* service.ts 283: a segment request asks for one charge
deductForRequest(t, u) ==
  /\ MayCall(t)
  /\ charges < MaxCharges
  /\ pc' = [pc EXCEPT ![t] = "d_incr"]
  /\ loc' = [loc EXCEPT ![t] = [Locals(t) EXCEPT !.op = "deduct", !.u = u]]
  /\ charges' = charges + 1
  /\ UNCHANGED <<fast, durable, now, dbUp, conn, admitted, settles,
                 initBalance, dbFailures, watched, last>>

\* the charge is taken from the durable balance right away
DeductIncr_DebitsBalance(t) ==
  /\ pc[t] = "d_incr"
  /\ balance' = IF loc[t].u \in Users
                THEN [balance EXCEPT ![loc[t].u] = @ - COST_PER_REQUEST]
                ELSE balance
  /\ loc' = [loc EXCEPT ![t].np = pending[loc[t].u] + COST_PER_REQUEST]
  /\ pc' = [pc EXCEPT ![t] = "d_find"]
  /\ UNCHANGED <<fast, watchTime, amountEarned, now, dbUp, conn, hist>>

\* service.ts 291-298: redis.incrbyfloat(pendingKey, COST_PER_REQUEST), then
\* redis.ttl and redis.expire for a key without expiry
DeductIncr(t) ==
  /\ pc[t] = "d_incr"
  /\ pending' = [pending EXCEPT ![loc[t].u] = @ + COST_PER_REQUEST]
  /\ expiry' = [expiry EXCEPT !.pending[loc[t].u] = ExpireIfNew(@)]
  /\ loc' = [loc EXCEPT ![t].np = pending'[loc[t].u],
                        ![t].refreshed =
                          RefreshedIfNew(@, expiry.pending[loc[t].u],
                                         "pending")]
  /\ pc' = [pc EXCEPT ![t] = "d_find"]
  /\ UNCHANGED <<pendingWT, session, heartbeat, activeSessions, durable, now,
                 dbUp, conn, hist>>

\* the check compares the durable balance alone
Insufficient_IgnoresPending(bal, np) == bal < 0

\* service.ts 316-317: effectiveBalance < 0
Insufficient(bal, np) == bal - np < 0

\* service.ts 301-327: prisma.user.findUnique, the missing user, then the
\* balance check.
\* A failing Prisma call throws out of the function (it has no try/catch).
DeductCheck(t) ==
  /\ pc[t] = "d_find"
  /\ IF ~dbUp
     THEN /\ Return(t, Thrown)
          /\ UNCHANGED admitted
     ELSE IF loc[t].u \notin Users
               \/ Insufficient(balance[loc[t].u], loc[t].np)
     THEN /\ pc' = [pc EXCEPT ![t] = "d_revert"]
          /\ UNCHANGED <<loc, admitted>>
     ELSE /\ Return(t, DeductResult(TRUE, loc[t].np, ""))
          /\ admitted' = [admitted EXCEPT ![loc[t].u] = @ + 1]
  /\ UNCHANGED <<fast, durable, now, dbUp, conn, charges, settles,
                 initBalance, dbFailures, watched, last>>

\* service.ts 306-314 and 318-324: the error of the rejection
RejectionError(u) ==
  IF u \in Users THEN "Insufficient balance" ELSE "User not found"

\* the rejection returns without the compensating decrement
DeductRevert_NoUndo(t) ==
  /\ pc[t] = "d_revert"
  /\ Return(t, DeductResult(FALSE, loc[t].np - COST_PER_REQUEST,
                            RejectionError(loc[t].u)))
  /\ UNCHANGED <<fast, durable, now, dbUp, conn, hist>>

\* service.ts 306-314 and 318-324: redis.incrbyfloat(pendingKey,
\* -COST_PER_REQUEST) and the not-admitted result
DeductRevert(t) ==
  /\ pc[t] = "d_revert"
  /\ pending' = [pending EXCEPT ![loc[t].u] = @ - COST_PER_REQUEST]
  /\ Return(t, DeductResult(FALSE, loc[t].np - COST_PER_REQUEST,
                            RejectionError(loc[t].u)))
  /\ UNCHANGED <<pendingWT, session, heartbeat, activeSessions, expiry,
                 durable, now,
                 dbUp, conn, hist>>

(* -------------------------- settleToDatabase --------------------------- *)
\* service.ts 507: redis.get(pendingKey)
SettleGetPending(t) ==
  /\ pc[t] = "s_get1"
  /\ loc' = [loc EXCEPT ![t].pd = pending[loc[t].u]]
  /\ pc' = [pc EXCEPT ![t] = "s_get2"]
  /\ UNCHANGED <<fast, durable, now, dbUp, conn, hist>>

\* service.ts 508-520: redis.get(creatorWatchTimeKey), then the zero check
SettleGetWatchTime(t) ==
  /\ pc[t] = "s_get2"
  /\ LET pw == pendingWT[loc[t].c] IN
     IF loc[t].pd = 0 /\ pw = 0
     THEN Return(t, SettlementResult(TRUE, 0, 0, ""))
     ELSE /\ loc' = [loc EXCEPT ![t].pw = pw]
          /\ pc' = [pc EXCEPT ![t] = "s_tx"]
  /\ UNCHANGED <<fast, durable, now, dbUp, conn, hist>>

\* service.ts 525-530: tx.user.update balance decrement
TxBalance(u, pd) ==
  IF pd > 0 THEN [balance EXCEPT ![u] = @ - pd] ELSE balance

\* service.ts 533-541: tx.creator.update watchTime increment
TxWatchTime(c, pw) ==
  IF pw > 0 THEN [watchTime EXCEPT ![c] = @ + pw] ELSE watchTime

\* service.ts 533-541: tx.creator.update amountEarned increment
TxAmountEarned(c, pd, pw) ==
  IF pw > 0 THEN [amountEarned EXCEPT ![c] = @ + pd] ELSE amountEarned

\* service.ts 523-543 and 567-576: prisma.$transaction; a failure is caught
\* and returned as success = false
SettleTransaction(t) ==
  /\ pc[t] = "s_tx"
  /\ IF ~dbUp
     THEN /\ Return(t, SettlementResult(FALSE, 0, 0, "Settlement failed"))
          /\ UNCHANGED durable
     ELSE /\ balance' = TxBalance(loc[t].u, loc[t].pd)
          /\ watchTime' = TxWatchTime(loc[t].c, loc[t].pw)
          /\ amountEarned' = TxAmountEarned(loc[t].c, loc[t].pd, loc[t].pw)
          /\ pc' = [pc EXCEPT ![t] = "s_reset1"]
          /\ UNCHANGED loc
  /\ UNCHANGED <<fast, now, dbUp, conn, hist>>

\* the reset is skipped: the key keeps its value
ResetPending_Keep(cur, committed) == cur

\* service.ts 546: the value the pending-deduction key holds after the reset
ResetPending(cur, committed) == 0

\* service.ts 546: redis.set(pendingKey, "0", "EX", SESSION_TTL_SECONDS)
SettleResetPending(t) ==
  /\ pc[t] = "s_reset1"
  /\ pending' = [pending EXCEPT ![loc[t].u] = ResetPending(@, loc[t].pd)]
  /\ expiry' = [expiry EXCEPT !.pending[loc[t].u] = SESSION_TTL_SECONDS]
  /\ loc' = [loc EXCEPT ![t].refreshed = @ \cup {"pending"}]
  /\ pc' = [pc EXCEPT ![t] = "s_reset2"]
  /\ UNCHANGED <<pendingWT, session, heartbeat, activeSessions, durable, now,
                 dbUp, conn, hist>>

\* service.ts 547: redis.set(creatorWatchTimeKey, "0", "EX",
\* SESSION_TTL_SECONDS)
SettleResetWatchTime(t) ==
  /\ pc[t] = "s_reset2"
  /\ pendingWT' = [pendingWT EXCEPT ![loc[t].c] = 0]
  /\ expiry' = [expiry EXCEPT !.pendingWT[loc[t].c] = SESSION_TTL_SECONDS]
  /\ loc' = [loc EXCEPT ![t].refreshed = @ \cup {"pendingWT"}]
  /\ pc' = [pc EXCEPT ![t] = "s_sess"]
  /\ UNCHANGED <<pending, session, heartbeat, activeSessions, durable, now,
                 dbUp, conn, hist>>

\* service.ts 550-552: cache.get(sessionKey); lastSettlementTime = Date.now()
SettleGetSession(t) ==
  /\ pc[t] = "s_sess"
  /\ IF session[loc[t].u] = NoSession
     THEN Return(t, SettlementResult(TRUE, loc[t].pd, loc[t].pw, ""))
     ELSE /\ loc' = [loc EXCEPT ![t].sess =
                       [session[loc[t].u] EXCEPT !.lastSettlementTime = now]]
          /\ pc' = [pc EXCEPT ![t] = "s_sessset"]
  /\ UNCHANGED <<fast, durable, now, dbUp, conn, hist>>

\* service.ts 553-566: cache.set(sessionKey, session), the cache
\* invalidations, and the successful result
SettleSetSession(t) ==
  /\ pc[t] = "s_sessset"
  /\ session' = [session EXCEPT ![loc[t].u] = loc[t].sess]
  /\ expiry' = [expiry EXCEPT !.session[loc[t].u] = SESSION_TTL_SECONDS]
  /\ ReturnRefreshed(t, SettlementResult(TRUE, loc[t].pd, loc[t].pw, ""),
                     "session")
  /\ UNCHANGED <<pending, pendingWT, heartbeat, activeSessions, durable, now,
                 dbUp, conn, hist>>

\* service.ts 505-576: a Redis call of settleToDatabase throws (the fast
\* store is unreachable); the one try/catch around the whole body returns
\* success = false, wherever the call had got to
SettleFastFailure(t) ==
  /\ pc[t] \in {"s_get1", "s_get2", "s_reset1", "s_reset2", "s_sess",
                "s_sessset"}
  /\ Return(t, SettlementResult(FALSE, 0, 0, "Settlement failed"))
  /\ UNCHANGED <<fast, durable, now, dbUp, conn, hist>>

DeductSteps(t) == DeductIncr(t) \/ DeductCheck(t) \/ DeductRevert(t)

SettleSteps(t) ==
  \/ SettleGetPending(t)
  \/ SettleGetWatchTime(t)
  \/ SettleTransaction(t)
  \/ SettleResetPending(t)
  \/ SettleResetWatchTime(t)
  \/ SettleGetSession(t)
  \/ SettleSetSession(t)

(* ----------------------------- startSession --------------------------- *)
\* service.ts 333: startSession(userId, videoId)
startSession(t, u, v) ==
  /\ MayCall(t)
  /\ pc' = [pc EXCEPT ![t] = "st_find"]
  /\ loc' = [loc EXCEPT ![t] = [Locals(t) EXCEPT !.op = "start", !.u = u,
                                                 !.v = v]]
  /\ UNCHANGED <<fast, durable, now, dbUp, conn, admitted, charges, settles,
                 initBalance, dbFailures, watched, last>>

\* service.ts 338-355: the catalog lookup, then the fresh session record
StartFindVideo(t) ==
  /\ pc[t] = "st_find"
  /\ LET c == findByVideoId(loc[t].v) IN
     IF c = "null"
     THEN Return(t, SessionResult(FALSE, "Video not found", FALSE))
     ELSE /\ loc' = [loc EXCEPT ![t].sess = WatchSession(loc[t].v, c, now),
                                ![t].c = c, ![t].tnow = now]
          /\ pc' = [pc EXCEPT ![t] = "st_set"]
  /\ UNCHANGED <<fast, durable, now, dbUp, conn, hist>>

\* service.ts 358: cache.set(sessionKey, session)
StartSetSession(t) ==
  /\ pc[t] = "st_set"
  /\ session' = [session EXCEPT ![loc[t].u] = loc[t].sess]
  /\ expiry' = [expiry EXCEPT !.session[loc[t].u] = SESSION_TTL_SECONDS]
  /\ loc' = [loc EXCEPT ![t].refreshed = @ \cup {"session"}]
  /\ pc' = [pc EXCEPT ![t] = "st_hb"]
  /\ UNCHANGED <<pending, pendingWT, heartbeat, activeSessions, durable, now,
                 dbUp, conn, hist>>

\* service.ts 361: redis.set(heartbeatKey, now)
StartSetHeartbeat(t) ==
  /\ pc[t] = "st_hb"
  /\ heartbeat' = [heartbeat EXCEPT ![loc[t].u] = loc[t].tnow]
  /\ expiry' = [expiry EXCEPT !.heartbeat[loc[t].u] = SESSION_TTL_SECONDS]
  /\ loc' = [loc EXCEPT ![t].refreshed = @ \cup {"heartbeat"}]
  /\ pc' = [pc EXCEPT ![t] = "st_sadd"]
  /\ UNCHANGED <<pending, pendingWT, session, activeSessions, durable, now,
                 dbUp, conn, hist>>

\* service.ts 364-366: redis.sadd(activeSessionsKey, userId)
StartSadd(t) ==
  /\ pc[t] = "st_sadd"
  /\ activeSessions' = activeSessions \cup {loc[t].u}
  /\ expiry' = [expiry EXCEPT !.activeSessions = AfterSadd(@)]
  /\ Return(t, SessionResult(TRUE, "", FALSE))
  /\ UNCHANGED <<pending, pendingWT, session, heartbeat, durable, now, dbUp,
                 conn, hist>>

(* ------------------------------ endSession ---------------------------- *)
\* service.ts 464: endSession(userId)
endSession(t, u) ==
  /\ MayCall(t)
  /\ pc' = [pc EXCEPT ![t] = "e_get"]
  /\ loc' = [loc EXCEPT ![t] = [Locals(t) EXCEPT !.op = "end", !.u = u]]
  /\ UNCHANGED <<fast, durable, now, dbUp, conn, admitted, charges, settles,
                 initBalance, dbFailures, watched, last>>

\* service.ts 476: watchTimeSeconds
WatchTimeSeconds(tnow, sess) == tnow - sess.lastSettlementTime

\* without a session the heartbeat and the set membership are removed all
\* the same
EndGetSession_CleansUpAnyway(t) ==
  /\ pc[t] = "e_get"
  /\ LET sess == SessionOf(loc[t].u)
         wts == WatchTimeSeconds(now, sess)
     IN
     IF sess = NoSession
     THEN /\ loc' = [loc EXCEPT ![t].res = NullResult]
          /\ pc' = [pc EXCEPT ![t] = "e_del2"]
     ELSE /\ loc' = [loc EXCEPT ![t].sess = sess, ![t].c = sess.creatorId,
                                ![t].wts = wts,
                                ![t].stack = IF wts > 0 THEN @
                                             ELSE <<"e_del1">> \o @]
          /\ pc' = [pc EXCEPT ![t] = IF wts > 0 THEN "e_addwt" ELSE "s_get1"]
  /\ UNCHANGED <<fast, durable, now, dbUp, conn, hist>>

\* service.ts 469-484: cache.get(sessionKey), the null return, the watch time
\* of the session; with no watch time to add, settleToDatabase is next
EndGetSession(t) ==
  /\ pc[t] = "e_get"
  /\ LET sess == SessionOf(loc[t].u)
         wts == WatchTimeSeconds(now, sess)
     IN
     IF sess = NoSession
     THEN Return(t, NullResult)
     ELSE /\ loc' = [loc EXCEPT ![t].sess = sess, ![t].c = sess.creatorId,
                                ![t].wts = wts,
                                ![t].stack = IF wts > 0 THEN @
                                             ELSE <<"e_del1">> \o @]
          /\ pc' = [pc EXCEPT ![t] = IF wts > 0 THEN "e_addwt" ELSE "s_get1"]
  /\ UNCHANGED <<fast, durable, now, dbUp, conn, hist>>

\* service.ts 450-459 and 480-484: addCreatorWatchTime, then settleToDatabase
EndAddWatchTime(t) ==
  /\ pc[t] = "e_addwt"
  /\ pendingWT' = [pendingWT EXCEPT ![loc[t].c] = @ + loc[t].wts]
  /\ expiry' = [expiry EXCEPT !.pendingWT[loc[t].c] = ExpireIfNew(@)]
  /\ loc' = [loc EXCEPT ![t].stack = <<"e_del1">> \o @,
                        ![t].refreshed =
                          RefreshedIfNew(@, expiry.pendingWT[loc[t].c],
                                         "pendingWT")]
  /\ pc' = [pc EXCEPT ![t] = "s_get1"]
  /\ UNCHANGED <<pending, session, heartbeat, activeSessions, durable, now,
                 dbUp, conn, hist>>

\* the cleanup is skipped when the settlement failed
EndDelSession_OnlyOnSuccess(t) ==
  /\ pc[t] = "e_del1"
  /\ IF loc[t].res.success
     THEN /\ session' = [session EXCEPT ![loc[t].u] = NoSession]
          /\ expiry' = [expiry EXCEPT !.session[loc[t].u] = NoKey]
          /\ pc' = [pc EXCEPT ![t] = "e_del2"]
          /\ UNCHANGED loc
     ELSE /\ Return(t, loc[t].res)
          /\ UNCHANGED <<session, expiry>>
  /\ UNCHANGED <<pending, pendingWT, heartbeat, activeSessions, durable, now,
                 dbUp, conn, hist>>

\* service.ts 487: cache.del(sessionKey)
EndDelSession(t) ==
  /\ pc[t] = "e_del1"
  /\ session' = [session EXCEPT ![loc[t].u] = NoSession]
  /\ expiry' = [expiry EXCEPT !.session[loc[t].u] = NoKey]
  /\ pc' = [pc EXCEPT ![t] = "e_del2"]
  /\ UNCHANGED <<pending, pendingWT, heartbeat, activeSessions, durable, now,
                 dbUp, conn, loc, hist>>

\* service.ts 488: cache.del(heartbeatKey)
EndDelHeartbeat(t) ==
  /\ pc[t] = "e_del2"
  /\ heartbeat' = [heartbeat EXCEPT ![loc[t].u] = -1]
  /\ expiry' = [expiry EXCEPT !.heartbeat[loc[t].u] = NoKey]
  /\ pc' = [pc EXCEPT ![t] = "e_srem"]
  /\ UNCHANGED <<pending, pendingWT, session, activeSessions, durable, now,
                 dbUp, conn, loc, hist>>

\* service.ts 489-491: redis.srem(activeSessionsKey, userId); return result
EndSrem(t) ==
  /\ pc[t] = "e_srem"
  /\ activeSessions' = activeSessions \ {loc[t].u}
  /\ expiry' = [expiry EXCEPT !.activeSessions = AfterSrem(@, activeSessions')]
  /\ Return(t, loc[t].res)
  /\ UNCHANGED <<pending, pendingWT, session, heartbeat, durable, now, dbUp,
                 conn, hist>>

(* ---------------------------- updateHeartbeat -------------------------- *)
\* service.ts 372: updateHeartbeat(userId, videoId)
updateHeartbeat(t, u, v) ==
  /\ MayCall(t)
  /\ pc' = [pc EXCEPT ![t] = "h_get"]
  /\ loc' = [loc EXCEPT ![t] = [Locals(t) EXCEPT !.op = "heartbeat", !.u = u,
                                             !.v = v]]
  /\ UNCHANGED <<fast, durable, now, dbUp, conn, admitted, charges, settles,
                 initBalance, dbFailures, watched, last>>

\* the switch starts the new session without ending the prior one
HeartbeatGetSession_NoEnd(t) ==
  /\ pc[t] = "h_get"
  /\ LET sess == session[loc[t].u] IN
     IF sess = NoSession \/ sess.videoId # loc[t].v
     THEN /\ pc' = [pc EXCEPT ![t] = "st_find"]
          /\ UNCHANGED loc
     ELSE /\ pc' = [pc EXCEPT ![t] = "h_set"]
          /\ loc' = [loc EXCEPT ![t].sess = sess, ![t].tnow = now]
  /\ UNCHANGED <<fast, durable, now, dbUp, conn, hist>>

\* service.ts 385-422: cache.get(sessionKey); no session: startSession (its
\* result is the heartbeat's); another video: endSession, then startSession
HeartbeatGetSession(t) ==
  /\ pc[t] = "h_get"
  /\ LET sess == session[loc[t].u] IN
     IF sess = NoSession
     THEN /\ pc' = [pc EXCEPT ![t] = "st_find"]
          /\ UNCHANGED loc
     ELSE IF sess.videoId # loc[t].v
     THEN /\ pc' = [pc EXCEPT ![t] = "e_get"]
          /\ loc' = [loc EXCEPT ![t].stack = <<"st_find">> \o @]
     ELSE /\ pc' = [pc EXCEPT ![t] = "h_set"]
          /\ loc' = [loc EXCEPT ![t].sess = sess, ![t].tnow = now]
  /\ UNCHANGED <<fast, durable, now, dbUp, conn, hist>>

\* settlement is due only after more than the period
ShouldSettle_Strict(tnow, sess) ==
  tnow - sess.lastSettlementTime > SETTLEMENT_INTERVAL_MS

\* service.ts 428-429: shouldSettle
ShouldSettle(tnow, sess) ==
  tnow - sess.lastSettlementTime >= SETTLEMENT_INTERVAL_MS

\* service.ts 425-431: redis.set(heartbeatKey, now); shouldSettle
HeartbeatSet(t) ==
  /\ pc[t] = "h_set"
  /\ heartbeat' = [heartbeat EXCEPT ![loc[t].u] = loc[t].tnow]
  /\ expiry' = [expiry EXCEPT !.heartbeat[loc[t].u] = SESSION_TTL_SECONDS]
  /\ ReturnRefreshed(t, SessionResult(TRUE, "",
                                      ShouldSettle(loc[t].tnow, loc[t].sess)),
                     "heartbeat")
  /\ UNCHANGED <<pending, pendingWT, session, activeSessions, durable, now,
                 dbUp, conn, hist>>

(* ------------------------- POST /billing/settle ------------------------ *)
\* billing/index.ts 208: the forced settlement route
forceSettle(t, u) ==
  /\ MayCall(t)
  /\ settles < MaxSettles
  /\ pc' = [pc EXCEPT ![t] = "fs_status"]
  /\ loc' = [loc EXCEPT ![t] = [Locals(t) EXCEPT !.op = "settle", !.u = u]]
  /\ settles' = settles + 1
  /\ UNCHANGED <<fast, durable, now, dbUp, conn, admitted, charges,
                 initBalance, dbFailures, watched, last>>

\* billing/index.ts 218-227 and service.ts 582-605: getBillingStatus, the
\* 400 without an active session, then settleToDatabase for its creator
ForceSettleStatus(t) ==
  /\ pc[t] = "fs_status"
  /\ IF ~dbUp
     THEN Return(t, Thrown)
     ELSE IF session[loc[t].u] = NoSession
     THEN Return(t, BadRequest("No active session to settle"))
     ELSE /\ loc' = [loc EXCEPT ![t].c = session[loc[t].u].creatorId]
          /\ pc' = [pc EXCEPT ![t] = "s_get1"]
  /\ UNCHANGED <<fast, durable, now, dbUp, conn, hist>>

StartSteps(t) ==
  StartFindVideo(t) \/ StartSetSession(t) \/ StartSetHeartbeat(t) \/ StartSadd(t)

EndSteps(t) ==
  \/ EndGetSession(t)
  \/ EndAddWatchTime(t)
  \/ EndDelSession(t)
  \/ EndDelHeartbeat(t)
  \/ EndSrem(t)

HeartbeatSteps(t) == HeartbeatGetSession(t) \/ HeartbeatSet(t)

(* ---------------------------- getBillingStatus ------------------------- *)
\* billing/index.ts 72-85 and service.ts 582: GET /billing/status
getBillingStatus(t, u) ==
  /\ MayCall(t)
  /\ pc' = [pc EXCEPT ![t] = "gs_find"]
  /\ loc' = [loc EXCEPT ![t] = [Locals(t) EXCEPT !.op = "status", !.u = u]]
  /\ UNCHANGED <<fast, durable, now, dbUp, conn, hist>>

\* service.ts 583-590: prisma.user.findUnique; null for a missing user
StatusFindUser(t) ==
  /\ pc[t] = "gs_find"
  /\ IF ~dbUp
     THEN Return(t, Thrown)
     ELSE IF loc[t].u \notin Users
     THEN Return(t, NullResult)
     ELSE /\ loc' = [loc EXCEPT ![t].bal = balance[loc[t].u]]
          /\ pc' = [pc EXCEPT ![t] = "gs_pending"]
  /\ UNCHANGED <<fast, durable, now, dbUp, conn, hist>>

\* service.ts 595: redis.get(pendingKey)
StatusGetPending(t) ==
  /\ pc[t] = "gs_pending"
  /\ loc' = [loc EXCEPT ![t].pd = pending[loc[t].u]]
  /\ pc' = [pc EXCEPT ![t] = "gs_session"]
  /\ UNCHANGED <<fast, durable, now, dbUp, conn, hist>>

\* service.ts 596-604: cache.get(sessionKey) and the BillingStatus returned
StatusGetSession(t) ==
  /\ pc[t] = "gs_session"
  /\ Return(t, BillingStatus(loc[t].pd, session[loc[t].u], loc[t].bal))
  /\ UNCHANGED <<fast, durable, now, dbUp, conn, hist>>

StatusSteps(t) ==
  StatusFindUser(t) \/ StatusGetPending(t) \/ StatusGetSession(t)

(* ------------------- GET /videos/stream/:videoId/:segmentName ---------- *)
\* billing/index.ts 670-701: a request for a billable segment (chunk-*.m4s)
\* of an authenticated user: deductForRequest comes first
segmentRequest(t, u) ==
  /\ MayCall(t)
  /\ charges < MaxCharges
  /\ pc' = [pc EXCEPT ![t] = "d_incr"]
  /\ loc' = [loc EXCEPT ![t] = [Locals(t) EXCEPT !.op = "segment", !.u = u,
                                             !.stack = <<"seg_charged">>]]
  /\ charges' = charges + 1
  /\ UNCHANGED <<fast, durable, now, dbUp, conn, admitted, settles,
                 initBalance, dbFailures, watched, last>>

\* billing/index.ts 696-699 and 724: a request for an init segment is not
\* charged
initSegmentRequest(t, u) ==
  /\ MayCall(t)
  /\ pc' = [pc EXCEPT ![t] = "seg_file"]
  /\ loc' = [loc EXCEPT ![t] = [Locals(t) EXCEPT !.op = "init_segment",
                                             !.u = u]]
  /\ UNCHANGED <<fast, durable, now, dbUp, conn, hist>>

\* the handler goes on whatever deductForRequest returned
SegmentCharged_ServesAnyway(t) ==
  /\ pc[t] = "seg_charged"
  /\ IF loc[t].res.kind = "thrown"
     THEN /\ pc' = [pc EXCEPT ![t] = "done"]
          /\ loc' = [loc EXCEPT ![t].charge = loc[t].res,
                                ![t].res = HttpResponse(500, "thrown", FALSE,
                                                        FALSE)]
     ELSE /\ pc' = [pc EXCEPT ![t] = "seg_inc_get"]
          /\ loc' = [loc EXCEPT ![t].charge = loc[t].res]
  /\ UNCHANGED <<fast, durable, now, dbUp, conn, hist>>

\* billing/index.ts 701-707: deductResult; 402 unless the charge was
\* admitted; an exception of deductForRequest leaves the handler (500)
SegmentCharged(t) ==
  /\ pc[t] = "seg_charged"
  /\ IF loc[t].res.kind = "thrown"
     THEN /\ pc' = [pc EXCEPT ![t] = "done"]
          /\ loc' = [loc EXCEPT ![t].charge = loc[t].res,
                                ![t].res = HttpResponse(500, "thrown", FALSE,
                                                        FALSE)]
     ELSE IF ~loc[t].res.success
     THEN /\ pc' = [pc EXCEPT ![t] = "done"]
          /\ loc' = [loc EXCEPT ![t].charge = loc[t].res,
                                ![t].res = HttpResponse(402, loc[t].res.error,
                                                        FALSE, FALSE)]
     ELSE /\ pc' = [pc EXCEPT ![t] = "seg_inc_get"]
          /\ loc' = [loc EXCEPT ![t].charge = loc[t].res]
  /\ UNCHANGED <<fast, durable, now, dbUp, conn, hist>>

\* service.ts 437-441: incrementRequestCount: cache.get(sessionKey)
SegmentGetSession(t) ==
  /\ pc[t] = "seg_inc_get"
  /\ IF SessionOf(loc[t].u) = NoSession
     THEN /\ pc' = [pc EXCEPT ![t] = "gs_find"]
          /\ loc' = [loc EXCEPT ![t].stack = <<"seg_status">>]
     ELSE /\ pc' = [pc EXCEPT ![t] = "seg_inc_set"]
          /\ loc' = [loc EXCEPT ![t].sess = SessionOf(loc[t].u)]
  /\ UNCHANGED <<fast, durable, now, dbUp, conn, hist>>

\* service.ts 442-443: session.totalRequests++; cache.set(sessionKey);
\* billing/index.ts 713: getBillingStatus is next
SegmentSetSession(t) ==
  /\ pc[t] = "seg_inc_set"
  /\ session' = [session EXCEPT ![loc[t].u] =
                   [loc[t].sess EXCEPT !.totalRequests = @ + 1]]
  /\ expiry' = [expiry EXCEPT !.session[loc[t].u] = SESSION_TTL_SECONDS]
  /\ pc' = [pc EXCEPT ![t] = "gs_find"]
  /\ loc' = [loc EXCEPT ![t].stack = <<"seg_status">>,
                        ![t].refreshed = @ \cup {"session"}]
  /\ UNCHANGED <<pending, pendingWT, heartbeat, activeSessions, durable, now,
                 dbUp, conn, hist>>

\* auth/index.ts 292-310: sendBalanceUpdate: nothing is sent without a
\* status or without an entry in activeConnections; ws.send delivers the
\* message or throws, and the exception is caught and logged
sendBalanceUpdate(u, status, delivered) ==
  IF status.kind # "status" \/ u \notin Users THEN "none"
  ELSE IF ~conn[u].open THEN "none"
  ELSE IF delivered THEN "sent"
  ELSE "failed"

\* the exception of ws.send leaves the handler
SegmentStatus_SendFailureFails(t) ==
  /\ pc[t] = "seg_status"
  /\ IF loc[t].res.kind = "thrown"
     THEN /\ pc' = [pc EXCEPT ![t] = "done"]
          /\ loc' = [loc EXCEPT ![t].res = HttpResponse(500, "thrown", FALSE,
                                                        FALSE)]
     ELSE \E delivered \in BOOLEAN :
            LET push == sendBalanceUpdate(loc[t].u, loc[t].res, delivered) IN
            IF push = "failed"
            THEN /\ pc' = [pc EXCEPT ![t] = "done"]
                 /\ loc' = [loc EXCEPT ![t].push = push,
                                       ![t].res = HttpResponse(500, "thrown",
                                                               FALSE, FALSE)]
            ELSE /\ pc' = [pc EXCEPT ![t] = "seg_file"]
                 /\ loc' = [loc EXCEPT ![t].push = push]
  /\ UNCHANGED <<fast, durable, now, dbUp, conn, hist>>

\* billing/index.ts 713-720: the status is sent over the user's WebSocket,
\* delivered or not; an exception of getBillingStatus leaves the handler
\* (500)
SegmentStatus(t) ==
  /\ pc[t] = "seg_status"
  /\ IF loc[t].res.kind = "thrown"
     THEN /\ pc' = [pc EXCEPT ![t] = "done"]
          /\ loc' = [loc EXCEPT ![t].res = HttpResponse(500, "thrown", FALSE,
                                                        FALSE)]
     ELSE /\ pc' = [pc EXCEPT ![t] = "seg_file"]
          /\ \E delivered \in BOOLEAN :
               loc' = [loc EXCEPT ![t].push =
                         sendBalanceUpdate(loc[t].u, loc[t].res, delivered)]
  /\ UNCHANGED <<fast, durable, now, dbUp, conn, hist>>

\* billing/index.ts 724-745: stat and readFile of the segment: its content,
\* or 404 when the file is missing
SegmentFile(t) ==
  /\ pc[t] = "seg_file"
  /\ \E exists \in BOOLEAN :
       Return(t, IF exists
                 THEN HttpResponse(200, "", TRUE, TRUE)
                 ELSE HttpResponse(404, "Segment not found", TRUE, FALSE))
  /\ UNCHANGED <<fast, durable, now, dbUp, conn, hist>>

SegmentSteps(t) ==
  \/ SegmentCharged(t)
  \/ SegmentGetSession(t)
  \/ SegmentSetSession(t)
  \/ SegmentStatus(t)
  \/ SegmentFile(t)

(* ------------------------------ environment ---------------------------- *)
\* the live session of each user accrues one tick for its video's creator
Accrue(c) ==
  watched[c] + Cardinality({u \in Users : session[u].creatorId = c})

\* the clock advances
Tick ==
  /\ now < MaxTime
  /\ now' = now + 1
  /\ watched' = [c \in Creators |-> Accrue(c)]
  /\ UNCHANGED <<fast, durable, dbUp, conn, pc, loc, admitted, charges,
                 settles, initBalance, dbFailures, last>>

\* the clock advances between the sequential caller's calls
TickIdle == AllIdle /\ Tick

\* the durable store becomes unreachable
DbFail ==
  /\ dbUp
  /\ dbFailures < MaxFailures
  /\ dbUp' = FALSE
  /\ dbFailures' = dbFailures + 1
  /\ UNCHANGED <<fast, durable, now, conn, pc, loc, admitted, charges,
                 settles, initBalance, watched, last>>

\* the durable store recovers
DbRecover ==
  /\ ~dbUp
  /\ dbUp' = TRUE
  /\ UNCHANGED <<fast, durable, now, conn, pc, loc, hist>>

(* --------------------------- billing WebSocket ------------------------- *)
\* auth/index.ts 343-379: startSettlementTimer replaces the connection's timer
startSettlementTimer(u, c) ==
  IF conn[u].open
  THEN [conn EXCEPT ![u].session = TRUE, ![u].timer = c]
  ELSE conn

\* auth/index.ts 329-338: cleanupConnection clears the timer, drops the entry
cleanupConnection(u) ==
  [conn EXCEPT ![u].open = FALSE, ![u].session = FALSE, ![u].timer = "none"]

\* auth/index.ts 417-437: open: an existing entry is cleaned up, the new
\* connection is stored without session and timer
wsOpen(u) ==
  /\ AllIdle
  /\ conn' = [conn EXCEPT ![u] = Connection(TRUE, FALSE, "none", TRUE, FALSE)]
  /\ UNCHANGED <<fast, durable, now, dbUp, pc, loc, hist>>

\* auth/index.ts 493-510: message start_session; a session this connection
\* knows of is ended first
wsStartSession(t, u, v) ==
  /\ MayCall(t)
  /\ conn[u].open
  /\ pc' = [pc EXCEPT ![t] = IF conn[u].session THEN "e_get" ELSE "st_find"]
  /\ loc' = [loc EXCEPT ![t] =
               [Locals(t) EXCEPT !.op = "ws_start", !.u = u, !.v = v,
                             !.stack = IF conn[u].session
                                       THEN <<"st_find", "ws_started">>
                                       ELSE <<"ws_started">>]]
  /\ UNCHANGED <<fast, durable, now, dbUp, conn, admitted, charges, settles,
                 initBalance, dbFailures, watched, last>>

\* auth/index.ts 511-531: after startSession: connection.session and the timer
WsSessionStarted(t) ==
  /\ pc[t] = "ws_started"
  /\ conn' = IF loc[t].res.success
             THEN [startSettlementTimer(loc[t].u, loc[t].c)
                     EXCEPT ![loc[t].u].sockSession = TRUE]
             ELSE conn
  /\ Return(t, loc[t].res)
  /\ UNCHANGED <<fast, durable, now, dbUp, hist>>

\* auth/index.ts 534-560: message end_session
wsEndSession(t, u) ==
  /\ MayCall(t)
  /\ conn[u].open
  /\ conn[u].session
  /\ pc' = [pc EXCEPT ![t] = "e_get"]
  /\ loc' = [loc EXCEPT ![t] = [Locals(t) EXCEPT !.op = "ws_end", !.u = u,
                                             !.stack = <<"ws_ended">>]]
  /\ UNCHANGED <<fast, durable, now, dbUp, conn, admitted, charges, settles,
                 initBalance, dbFailures, watched, last>>

\* auth/index.ts 537-543: connection.session = null; clearInterval
WsSessionEnded(t) ==
  /\ pc[t] = "ws_ended"
  /\ conn' = [conn EXCEPT ![loc[t].u].session = FALSE,
                          ![loc[t].u].timer = "none",
                          ![loc[t].u].sockSession = FALSE]
  /\ Return(t, loc[t].res)
  /\ UNCHANGED <<fast, durable, now, dbUp, hist>>

\* auth/index.ts 598-619: the user's socket closes: endSession if the entry
\* found under the user id has a session, cleanupConnection after it
wsClose(t, u) ==
  /\ MayCall(t)
  /\ conn[u].sock
  /\ conn' = [conn EXCEPT ![u].sock = FALSE, ![u].sockSession = FALSE]
  /\ LET found == conn[u].open /\ conn[u].session IN
       /\ pc' = [pc EXCEPT ![t] = IF found THEN "e_get" ELSE "ws_closed"]
       /\ loc' = [loc EXCEPT ![t] =
                    [Locals(t) EXCEPT !.op = "ws_close", !.u = u,
                                  !.stack = IF found THEN <<"ws_closed">>
                                            ELSE <<>>]]
  /\ UNCHANGED <<fast, durable, now, dbUp, admitted, charges, settles,
                 initBalance, dbFailures, watched, last>>

\* auth/index.ts 417-437: open while the user has an entry: the existing
\* socket is closed, the entry cleaned up and the new connection stored.
\* The close handler of the displaced socket looks the entry up under the
\* user id: it finds the displaced entry when it runs inside ws.close(), and
\* the new one when it runs after open has stored it.  Inside ws.close() and
\* without a session it has no await and is over before open stores the new
\* entry.
wsReplace(t, u) ==
  /\ MayCall(t)
  /\ conn[u].open
  /\ conn[u].sock
  /\ conn' = [conn EXCEPT ![u] = Connection(TRUE, FALSE, "none", TRUE, FALSE)]
  /\ \E insideClose \in BOOLEAN :
       LET found == insideClose /\ conn[u].session IN
       /\ pc' = [pc EXCEPT ![t] = IF found THEN "e_get"
                                  ELSE IF insideClose THEN "done"
                                  ELSE "ws_closed"]
       /\ loc' = [loc EXCEPT ![t] =
                    [Locals(t) EXCEPT !.op = "ws_replace", !.u = u,
                                  !.stack = IF found THEN <<"ws_closed">>
                                            ELSE <<>>]]
  /\ UNCHANGED <<fast, durable, now, dbUp, admitted, charges, settles,
                 initBalance, dbFailures, watched, last>>

\* auth/index.ts 621: cleanupConnection(userId)
WsClosed(t) ==
  /\ pc[t] = "ws_closed"
  /\ conn' = cleanupConnection(loc[t].u)
  /\ Return(t, loc[t].res)
  /\ UNCHANGED <<fast, durable, now, dbUp, hist>>

\* auth/index.ts 353-378: the interval callback calls settleToDatabase for
\* the creator the timer was started with
TimerCallback(t, u) ==
  /\ Idle(t)
  /\ conn[u].timer # "none"
  /\ pc' = [pc EXCEPT ![t] = "s_get1"]
  /\ loc' = [loc EXCEPT ![t] = [Locals(t) EXCEPT !.op = "timer", !.u = u,
                                             !.c = conn[u].timer]]
  /\ UNCHANGED <<fast, durable, now, dbUp, conn, admitted, charges,
                 initBalance, dbFailures, watched, last>>

\* the timer fires, a bounded number of times in one run
TimerFire(t, u) ==
  /\ settles < MaxSettles
  /\ settles' = settles + 1
  /\ TimerCallback(t, u)

\* the timer fires, every interval for as long as it is set
TimerFireAlways(t, u) ==
  /\ UNCHANGED settles
  /\ TimerCallback(t, u)

(* ------------------------------ the worker ----------------------------- *)
\* worker.ts 11 and 65: the interval runs processAllStaleSessions
processAllStaleSessions ==
  /\ Idle(Reaper)
  /\ pc' = [pc EXCEPT ![Reaper] = "r_members"]
  /\ loc' = [loc EXCEPT ![Reaper] = [Blank EXCEPT !.op = "reap"]]
  /\ UNCHANGED <<fast, durable, now, dbUp, conn, hist>>

\* worker.ts 13-17 and service.ts 610-613: redis.smembers(activeSessionsKey)
ReaperMembers ==
  /\ pc[Reaper] = "r_members"
  /\ IF activeSessions = {}
     THEN Return(Reaper, NullResult)
     ELSE /\ loc' = [loc EXCEPT ![Reaper].todo = activeSessions]
          /\ pc' = [pc EXCEPT ![Reaper] = "r_next"]
  /\ UNCHANGED <<fast, durable, now, dbUp, conn, hist>>

\* worker.ts 23: the next user id of the sweep
ReaperNext ==
  /\ pc[Reaper] = "r_next"
  /\ IF loc[Reaper].todo = {}
     THEN Return(Reaper, NullResult)
     ELSE \E u \in loc[Reaper].todo :
            /\ loc' = [loc EXCEPT ![Reaper].u = u, ![Reaper].todo = @ \ {u}]
            /\ pc' = [pc EXCEPT ![Reaper] = "r_stale"]
  /\ UNCHANGED <<fast, durable, now, dbUp, conn, hist>>

\* only a missing heartbeat key counts as stale
isSessionStale_OnlyMissing(hb, tnow) == hb = -1

\* service.ts 618-630: isSessionStale
isSessionStale(hb, tnow) == hb = -1 \/ tnow - hb > HEARTBEAT_TIMEOUT_MS

\* service.ts 635-645: processStaleSession: redis.get(heartbeatKey); a stale
\* session is ended
ReaperCheckStale ==
  /\ pc[Reaper] = "r_stale"
  /\ IF isSessionStale(HeartbeatOf(loc[Reaper].u), now)
     THEN /\ pc' = [pc EXCEPT ![Reaper] = "e_get"]
          /\ loc' = [loc EXCEPT ![Reaper].stack = <<"r_next">>]
     ELSE /\ pc' = [pc EXCEPT ![Reaper] = "r_next"]
          /\ UNCHANGED loc
  /\ UNCHANGED <<fast, durable, now, dbUp, conn, hist>>

\* the error of one user id ends the whole sweep
ReaperUserFailure_AbortsSweep ==
  /\ pc[Reaper] \in {"r_stale", "e_get", "e_addwt", "e_del1", "e_del2",
                     "e_srem"}
  /\ pc' = [pc EXCEPT ![Reaper] = "done"]
  /\ loc' = [loc EXCEPT ![Reaper].res = Thrown, ![Reaper].stack = <<>>]
  /\ UNCHANGED <<fast, durable, now, dbUp, conn, hist>>

\* worker.ts 24-41: a Redis call of processStaleSession(userId) throws, in
\* isSessionStale or in endSession; the try/catch inside the loop logs the
\* error and the loop goes on with the next user id
ReaperUserFailure ==
  /\ pc[Reaper] \in {"r_stale", "e_get", "e_addwt", "e_del1", "e_del2",
                     "e_srem"}
  /\ pc' = [pc EXCEPT ![Reaper] = "r_next"]
  /\ loc' = [loc EXCEPT ![Reaper].res = Thrown, ![Reaper].stack = <<>>]
  /\ UNCHANGED <<fast, durable, now, dbUp, conn, hist>>

(* ------------------------------ initial states ------------------------- *)
\* a fresh system; the user's balance is b
InitFresh(b) ==
  /\ pending = [u \in UserIds |-> 0]
  /\ pendingWT = [c \in Creators |-> 0]
  /\ session = [u \in Users |-> NoSession]
  /\ heartbeat = [u \in Users |-> -1]
  /\ activeSessions = {}
  /\ expiry = NoKeys
  /\ balance = [u \in Users |-> b]
  /\ watchTime = [c \in Creators |-> 0]
  /\ amountEarned = [c \in Creators |-> 0]
  /\ now = 0
  /\ dbUp = TRUE
  /\ conn = [u \in Users |-> NoConn]
  /\ pc = [t \in AllThreads |-> "idle"]
  /\ loc = [t \in AllThreads |-> Blank]
  /\ admitted = [u \in Users |-> 0]
  /\ charges = 0
  /\ settles = 0
  /\ initBalance = [u \in Users |-> b]
  /\ dbFailures = 0
  /\ watched = [c \in Creators |-> 0]
  /\ last = NoEntry

\* the state right after message start_session for video vA at time 0 on an
\* open connection: the session is live and its settlement timer runs; the
\* active-sessions set holds the user ids members
InitMembers(b, members) ==
  /\ pending = [u \in UserIds |-> 0]
  /\ pendingWT = [c \in Creators |-> 0]
  /\ session = [u \in Users |-> WatchSession("vA", "cA", 0)]
  /\ heartbeat = [u \in Users |-> 0]
  /\ activeSessions = members
  /\ expiry = [NoKeys EXCEPT
                 !.session = [u \in Users |-> SESSION_TTL_SECONDS],
                 !.heartbeat = [u \in Users |-> SESSION_TTL_SECONDS],
                 !.activeSessions = NoExpiry]
  /\ balance = [u \in Users |-> b]
  /\ watchTime = [c \in Creators |-> 0]
  /\ amountEarned = [c \in Creators |-> 0]
  /\ now = 0
  /\ dbUp = TRUE
  /\ conn = [u \in Users |-> Connection(TRUE, TRUE, "cA", TRUE, TRUE)]
  /\ pc = [t \in AllThreads |-> "idle"]
  /\ loc = [t \in AllThreads |-> Blank]
  /\ admitted = [u \in Users |-> 0]
  /\ charges = 0
  /\ settles = 0
  /\ initBalance = [u \in Users |-> b]
  /\ dbFailures = 0
  /\ watched = [c \in Creators |-> 0]
  /\ last = NoEntry

\* the watching user is the only member of the active-sessions set
InitWatching(b) == InitMembers(b, Users)

(* ------------------------------ specifications ------------------------- *)
\* concurrent admission checks of one user, nothing else
InitAdmit == \E b \in 0 .. MaxBalance : InitFresh(b)

NextAdmit ==
  \E t \in Threads :
    \/ \E u \in UserIds : deductForRequest(t, u)
    \/ DeductSteps(t)
    \/ Finish(t)

SpecAdmit == InitAdmit /\ [][NextAdmit]_vars

\* charges and settlements (forced, periodic) of a watching user, concurrently
Init == \E b \in 0 .. MaxBalance : InitWatching(b)

Next ==
  \E t \in Threads :
    \/ \E u \in Users : deductForRequest(t, u)
    \/ \E u \in Users : forceSettle(t, u)
    \/ \E u \in Users : TimerFire(t, u)
    \/ DeductSteps(t)
    \/ ForceSettleStatus(t)
    \/ SettleSteps(t)
    \/ Finish(t)

Spec == Init /\ [][Next]_vars

\* a watching user; one caller, one call after the other; the store may fail
\* and recover
InitSeq == InitWatching(MaxBalance)

NextSeq ==
  \/ \E u \in Users : endSession(SeqCaller, u)
  \/ \E u \in Users : deductForRequest(SeqCaller, u)
  \/ \E u \in Users : forceSettle(SeqCaller, u)
  \/ \E u \in Users : TimerFire(SeqCaller, u)
  \/ DeductSteps(SeqCaller)
  \/ ForceSettleStatus(SeqCaller)
  \/ SettleSteps(SeqCaller)
  \/ EndSteps(SeqCaller)
  \/ Finish(SeqCaller)
  \/ TickIdle
  \/ DbFail
  \/ DbRecover

SpecSeq == InitSeq /\ [][NextSeq]_vars

\* a client that starts a session only when it has none, sends heartbeats
\* (also for another video: the switch) and ends its session
InitSwitch == InitFresh(MaxBalance)

NextSwitch ==
  \/ \E u \in Users, v \in Videos \cup {UnknownVideo} :
       session[u] = NoSession /\ startSession(SeqCaller, u, v)
  \/ \E u \in Users, v \in Videos : updateHeartbeat(SeqCaller, u, v)
  \/ \E u \in Users : endSession(SeqCaller, u)
  \/ \E u \in Users : session[u] # NoSession /\ deductForRequest(SeqCaller, u)
  \/ DeductSteps(SeqCaller)
  \/ StartSteps(SeqCaller)
  \/ HeartbeatSteps(SeqCaller)
  \/ EndSteps(SeqCaller)
  \/ SettleSteps(SeqCaller)
  \/ Finish(SeqCaller)
  \/ TickIdle

SpecSwitch == InitSwitch /\ [][NextSwitch]_vars

\* every entry path that starts a session, whatever session is live
InitEntry == InitFresh(MaxBalance)

NextEntry ==
  \/ \E u \in Users, v \in Videos : startSession(SeqCaller, u, v)
  \/ \E u \in Users, v \in Videos : updateHeartbeat(SeqCaller, u, v)
  \/ \E u \in Users : ~conn[u].open /\ wsOpen(u)
  \/ \E u \in Users, v \in Videos \cup {UnknownVideo} :
       wsStartSession(SeqCaller, u, v)
  \/ StartSteps(SeqCaller)
  \/ HeartbeatSteps(SeqCaller)
  \/ EndSteps(SeqCaller)
  \/ SettleSteps(SeqCaller)
  \/ WsSessionStarted(SeqCaller)
  \/ Finish(SeqCaller)
  \/ TickIdle

SpecEntry == InitEntry /\ [][NextEntry]_vars

\* a watching user on an open connection: charges, then the session ends
\* (message end_session, close, POST /session/end) while the store may be
\* down; the handlers, the timer's callback and the worker's sweep run one
\* after the other here, and the timer of the connection, the worker and the
\* store's recovery are scheduled fairly
TimerThread == 1

ClientThread == 2

InitLive == \E b \in 1 .. MaxBalance : InitWatching(b)

ClientLive ==
  /\ AllIdle
  /\ \E u \in Users :
       \/ session[u] # NoSession /\ deductForRequest(ClientThread, u)
       \/ wsEndSession(ClientThread, u)
       \/ wsClose(ClientThread, u)
       \/ endSession(ClientThread, u)

HandlerLive ==
  \/ DeductSteps(ClientThread)
  \/ EndSteps(ClientThread)
  \/ SettleSteps(ClientThread)
  \/ WsSessionEnded(ClientThread)
  \/ WsClosed(ClientThread)
  \/ Finish(ClientThread)

TimerLive ==
  \/ AllIdle /\ \E u \in Users : TimerFireAlways(TimerThread, u)
  \/ SettleSteps(TimerThread)
  \/ Finish(TimerThread)

WorkerLive ==
  \/ AllIdle /\ processAllStaleSessions
  \/ ReaperMembers
  \/ ReaperNext
  \/ ReaperCheckStale
  \/ EndSteps(Reaper)
  \/ SettleSteps(Reaper)
  \/ Finish(Reaper)

NextLive ==
  \/ ClientLive
  \/ HandlerLive
  \/ TimerLive
  \/ WorkerLive
  \/ TickIdle
  \/ DbFail
  \/ DbRecover

\* handlers run to completion, setInterval keeps firing the timer and the
\* worker, the clock advances, and the store comes back
FairLive ==
  /\ WF_vars(HandlerLive)
  /\ SF_vars(TimerLive)
  /\ SF_vars(WorkerLive)
  /\ SF_vars(TickIdle)
  /\ WF_vars(DbRecover)

SpecLive == InitLive /\ [][NextLive]_vars /\ FairLive

\* a watching user whose client charges and refreshes the heartbeat of its
\* video for a while and then goes silent (the refreshes stop early enough
\* for the bounded clock to pass the timeout); the timer, the worker and the
\* clock are scheduled fairly, the handlers run one after the other
InitReap == InitWatching(MaxBalance)

ClientReap ==
  /\ AllIdle
  /\ \E u \in Users :
       /\ session[u] # NoSession
       /\ \/ deductForRequest(ClientThread, u)
          \/ /\ now + HEARTBEAT_TIMEOUT_MS < MaxTime
             /\ updateHeartbeat(ClientThread, u, session[u].videoId)

HandlerReap ==
  \/ DeductSteps(ClientThread)
  \/ HeartbeatSteps(ClientThread)
  \/ Finish(ClientThread)

NextReap ==
  \/ ClientReap
  \/ HandlerReap
  \/ TimerLive
  \/ WorkerLive
  \/ TickIdle
  \/ DbFail
  \/ DbRecover

FairReap ==
  /\ WF_vars(HandlerReap)
  /\ SF_vars(TimerLive)
  /\ SF_vars(WorkerLive)
  /\ SF_vars(TickIdle)
  /\ WF_vars(DbRecover)

SpecReap == InitReap /\ [][NextReap]_vars /\ FairReap

\* one client of the streaming and status routes, one request after the
\* other, with and without a session; the store may fail and recover
InitSegment ==
  \E b \in 0 .. MaxBalance : InitWatching(b) \/ InitFresh(b)

NextSegment ==
  \/ \E u \in UserIds : segmentRequest(SeqCaller, u)
  \/ \E u \in UserIds : initSegmentRequest(SeqCaller, u)
  \/ \E u \in UserIds : getBillingStatus(SeqCaller, u)
  \/ DeductSteps(SeqCaller)
  \/ StatusSteps(SeqCaller)
  \/ SegmentSteps(SeqCaller)
  \/ Finish(SeqCaller)
  \/ DbFail
  \/ DbRecover

SpecSegment == InitSegment /\ [][NextSegment]_vars

\* the billing WebSocket of one user: connections open, are replaced and
\* close, sessions start and end over them; the close handlers run in one
\* context and the message handlers in another, concurrently
InitWs == InitFresh(MaxBalance)

TeardownThread == 1

MessageThread == 2

TeardownWs ==
  \/ \E u \in Users : ~conn[u].sock /\ wsOpen(u)
  \/ \E u \in Users : AllIdle /\ wsReplace(TeardownThread, u)
  \/ \E u \in Users : wsClose(TeardownThread, u)
  \/ EndSteps(TeardownThread)
  \/ SettleSteps(TeardownThread)
  \/ WsClosed(TeardownThread)
  \/ Finish(TeardownThread)

MessageWs ==
  \/ \E u \in Users, v \in Videos : wsStartSession(MessageThread, u, v)
  \/ \E u \in Users : wsEndSession(MessageThread, u)
  \/ StartSteps(MessageThread)
  \/ EndSteps(MessageThread)
  \/ SettleSteps(MessageThread)
  \/ WsSessionStarted(MessageThread)
  \/ WsSessionEnded(MessageThread)
  \/ Finish(MessageThread)

\* the clock of the connection scenario stops after MaxTimeWs ticks
MaxTimeWs == 1

TickWs == now < MaxTimeWs /\ TickIdle

NextWs == TeardownWs \/ MessageWs \/ TickWs

SpecWs == InitWs /\ [][NextWs]_vars

\* one client of every operation of the billing core, one call after the
\* other, and the worker's sweep between the calls
InitCore == InitFresh(MaxBalance)

ClientCore ==
  /\ AllIdle
  /\ \/ \E u \in Users, v \in Videos : startSession(ClientThread, u, v)
     \/ \E u \in Users, v \in Videos : updateHeartbeat(ClientThread, u, v)
     \/ \E u \in Users : endSession(ClientThread, u)
     \/ \E u \in Users : segmentRequest(ClientThread, u)
     \/ \E u \in UserIds : getBillingStatus(ClientThread, u)

HandlerCore ==
  \/ DeductSteps(ClientThread)
  \/ StartSteps(ClientThread)
  \/ HeartbeatSteps(ClientThread)
  \/ EndSteps(ClientThread)
  \/ SettleSteps(ClientThread)
  \/ StatusSteps(ClientThread)
  \/ SegmentSteps(ClientThread)
  \/ Finish(ClientThread)

NextCore == ClientCore \/ HandlerCore \/ WorkerLive \/ TickIdle

SpecCore == InitCore /\ [][NextCore]_vars

\* a watching user whose session ends while segment requests and periodic
\* settlements of the same user are running
InitRace == InitWatching(MaxBalance)

EndRace ==
  \/ \E u \in Users : endSession(TeardownThread, u)
  \/ EndSteps(TeardownThread)
  \/ SettleSteps(TeardownThread)
  \/ Finish(TeardownThread)

WriterRace ==
  \/ \E u \in Users : segmentRequest(MessageThread, u)
  \/ \E u \in Users : TimerFire(MessageThread, u)
  \/ DeductSteps(MessageThread)
  \/ SegmentSteps(MessageThread)
  \/ StatusSteps(MessageThread)
  \/ SettleSteps(MessageThread)
  \/ Finish(MessageThread)

NextRace == EndRace \/ WriterRace \/ TickWs

SpecRace == InitRace /\ [][NextRace]_vars

\* the sequential caller of a watching user, with a durable store and a fast
\* store that may both fail
InitFault == InitWatching(MaxBalance)

NextFault ==
  \/ NextSeq
  \/ SettleFastFailure(SeqCaller)

SpecFault == InitFault /\ [][NextFault]_vars

\* a user whose session is started in one context and ended in another,
\* concurrently; the worker sweeps between the calls; each handler runs to
\* completion, the worker keeps sweeping and the clock advances
InitOrphan == InitFresh(MaxBalance)

StarterOrphan ==
  \/ \E u \in Users, v \in Videos :
       /\ Idle(Reaper)
       /\ session[u] = NoSession
       /\ u \notin activeSessions
       /\ startSession(MessageThread, u, v)
  \/ StartSteps(MessageThread)
  \/ Finish(MessageThread)

EnderOrphan ==
  \/ \E u \in Users :
       /\ Idle(Reaper)
       /\ session[u] # NoSession
       /\ endSession(TeardownThread, u)
  \/ EndSteps(TeardownThread)
  \/ SettleSteps(TeardownThread)
  \/ Finish(TeardownThread)

NextOrphan == StarterOrphan \/ EnderOrphan \/ WorkerLive \/ TickIdle

FairOrphan ==
  /\ WF_vars(StartSteps(MessageThread) \/ Finish(MessageThread))
  /\ WF_vars(EndSteps(TeardownThread) \/ SettleSteps(TeardownThread)
               \/ Finish(TeardownThread))
  /\ SF_vars(WorkerLive)
  /\ SF_vars(TickIdle)

SpecOrphan == InitOrphan /\ [][NextOrphan]_vars /\ FairOrphan

\* the worker's sweeps over two user ids, the watching user's and one left
\* in the set by a session whose keys are gone, while Redis calls of the
\* sweep may throw; the client charges and refreshes its heartbeat between
\* the sweeps
InitSweep == InitMembers(MaxBalance, UserIds)

NextSweep ==
  \/ ClientReap
  \/ HandlerReap
  \/ WorkerLive
  \/ ReaperUserFailure
  \/ TickIdle

SpecSweep == InitSweep /\ [][NextSweep]_vars

\* a watching user whose client sends heartbeats, for the video of its
\* session and for the other one, for longer than a settlement period
InitPeriod == InitWatching(MaxBalance)

\* the clock of the heartbeat scenario stops after MaxTimePeriod ticks
MaxTimePeriod == 11

TickPeriod ==
  /\ AllIdle
  /\ now < MaxTimePeriod
  /\ now' = now + 1
  /\ watched' = [c \in Creators |-> Accrue(c)]
  /\ UNCHANGED <<fast, durable, dbUp, conn, pc, loc, admitted, charges,
                 settles, initBalance, dbFailures, last>>

NextPeriod ==
  \/ \E u \in Users, v \in Videos : updateHeartbeat(ClientThread, u, v)
  \/ HeartbeatSteps(ClientThread)
  \/ EndSteps(ClientThread)
  \/ SettleSteps(ClientThread)
  \/ StartSteps(ClientThread)
  \/ Finish(ClientThread)
  \/ TickPeriod

SpecPeriod == InitPeriod /\ [][NextPeriod]_vars

(* ------------------------------- properties ---------------------------- *)
RECURSIVE SumOver(_, _)
\* the sum of f over the set S of its arguments
SumOver(f, S) ==
  IF S = {} THEN 0
  ELSE LET x == CHOOSE y \in S : TRUE IN f[x] + SumOver(f, S \ {x})

\* the admission checks of u that have incremented the counter and have not
\* yet returned or reverted
InFlight(u) ==
  {t \in AllThreads : pc[t] \in {"d_find", "d_revert"} /\ loc[t].u = u}

\* the increments deductForRequest calls have applied so far
Incremented == charges - Cardinality({t \in AllThreads : pc[t] = "d_incr"})

\* the durable balance taken from the users so far
TotalDebited == SumOver([u \in Users |-> initBalance[u] - balance[u]], Users)

\* C1: the reset of a settlement takes from the pending-deduction counter
\* exactly the amount its transaction committed, so a charge admitted between
\* the settlement's read and its reset stays in the counter.
C1_ResetKeepsConcurrentCharges ==
  [][\A t \in AllThreads :
       (pc[t] = "s_reset1" /\ pc'[t] = "s_reset2") =>
         pending'[loc[t].u] = pending[loc[t].u] - loc[t].pd]_vars

\* C2: with balance B, unit cost C and at most NThreads admission checks in
\* flight, no more than floor(B / C) + NThreads charges are admitted.
C2_AdmittedBounded ==
  \A u \in Users :
    admitted[u] <= (initBalance[u] \div COST_PER_REQUEST) + NThreads

\* C2: every context has an admission check in flight, one of them being
\* rejected, after a charge was admitted.
C2_Witness ==
  \E u \in Users :
    /\ admitted[u] >= 1
    /\ InFlight(u) = Threads
    /\ \E t \in Threads : pc[t] = "d_revert"

\* C3: under interleavings of deductForRequest and settleToDatabase calls the
\* effective balance (durable balance minus pending deduction) is never below
\* minus one unit cost; stated for the states where no admission check is in
\* flight, where no transient of a racing check is left.
C3_EffectiveAtLeastMinusOne ==
  \A u \in Users :
    InFlight(u) = {} => balance[u] - pending[u] >= -COST_PER_REQUEST

\* C4: settlements never commit the same pending amount twice: what has been
\* taken from the durable balances never exceeds what was charged.
C4_NeverCommittedTwice == TotalDebited <= COST_PER_REQUEST * Incremented

\* C7: what settlements have taken from the users' balances equals what they
\* have added to the creators' earnings.
C7_DebitEqualsCredit == TotalDebited = SumOver(amountEarned, Creators)

\* a direct settleToDatabase call (forced settlement route, periodic timer)
\* that returned a SettlementResult
IsSettleCall(op, res) == op \in {"settle", "timer"} /\ res.kind = "settlement"

\* the sequential caller's settlement has returned right after a successful
\* settlement of the same user and creator
SecondSettleReturned ==
  /\ pc[SeqCaller] = "done"
  /\ IsSettleCall(loc[SeqCaller].op, loc[SeqCaller].res)
  /\ IsSettleCall(loc[SeqCaller].prev.op, loc[SeqCaller].prev.res)
  /\ loc[SeqCaller].prev.res.success
  /\ loc[SeqCaller].prev.u = loc[SeqCaller].u
  /\ loc[SeqCaller].prev.c = loc[SeqCaller].c

\* C5: a settlement called right after a successful settlement of the same
\* user and creator returns success with nothing settled and leaves the
\* durable balance, earnings and watch time as the first left them.
C5_SecondSettleIsNoOp ==
  SecondSettleReturned =>
    /\ loc[SeqCaller].res = SettlementResult(TRUE, 0, 0, "")
    /\ balance = loc[SeqCaller].prev.balance
    /\ watchTime = loc[SeqCaller].prev.watchTime
    /\ amountEarned = loc[SeqCaller].prev.amountEarned

\* C5: the second settlement has returned after a first one that settled a
\* pending deduction and pending watch time.
C5_Witness ==
  /\ SecondSettleReturned
  /\ loc[SeqCaller].prev.res.amountSettled > 0
  /\ loc[SeqCaller].prev.res.watchTimeSettled > 0

Min(a, b) == IF a <= b THEN a ELSE b

\* C6: with a balance of N unit costs and a healthy store, sequential charges
\* are admitted exactly N times and then rejected with "Insufficient
\* balance"; a forced settlement after the N admitted charges leaves a
\* durable balance of 0 and N unit costs more of creator earnings.
C6_EndToEnd ==
  \A u \in Users :
    /\ (AllIdle /\ dbFailures = 0 /\ balance = initBalance) =>
         /\ COST_PER_REQUEST * admitted[u] = Min(COST_PER_REQUEST * charges,
                                                initBalance[u])
         /\ (last.op = "deduct" /\ COST_PER_REQUEST * charges > initBalance[u])
              => last.res = DeductResult(FALSE, initBalance[u],
                                         "Insufficient balance")
    /\ (AllIdle /\ dbFailures = 0 /\ last.op = "settle"
        /\ last.res.kind = "settlement" /\ last.res.success
        /\ COST_PER_REQUEST * admitted[u] = initBalance[u]) =>
         /\ balance[u] = 0
         /\ SumOver(amountEarned, Creators) = initBalance[u]

\* the watch time of c's video that the live sessions have not yet handed in
Unsettled(c) ==
  SumOver([u \in Users |-> IF session[u].creatorId = c
                           THEN now - session[u].lastSettlementTime ELSE 0],
          Users)

\* C8: between calls, each creator has been credited exactly the time the
\* user's session was on that creator's video, up to the time the live
\* session has yet to hand in; nothing is pending, credited twice or lost
\* across a switch.
C8_WatchTimePartitioned ==
  AllIdle =>
    \A c \in Creators :
      /\ pendingWT[c] = 0
      /\ watchTime[c] + Unsettled(c) = watched[c]

\* C8: in the middle of a switch: the heartbeat for the other video has ended
\* the prior session, which settled watch time, and starts the new one.
C8_Witness ==
  /\ pc[SeqCaller] = "st_find"
  /\ loc[SeqCaller].op = "heartbeat"
  /\ loc[SeqCaller].res.kind = "settlement"
  /\ loc[SeqCaller].res.watchTimeSettled >= 1
  /\ watchTime[loc[SeqCaller].c] = watched[loc[SeqCaller].c]

\* C9: startSession stores its session record only where no session of
\* another video is live: a prior session has been ended first.
C9_StartNeverOverwritesLiveSession ==
  [][\A t \in AllThreads :
       (pc[t] = "st_set" /\ pc'[t] = "st_hb") =>
         \/ session[loc[t].u] = NoSession
         \/ session[loc[t].u].videoId = loc[t].v]_vars

\* endSession's settlement of u has returned a failure
EndFailed(u) ==
  \E t \in AllThreads :
    /\ pc[t] = "e_del1"
    /\ loc[t].u = u
    /\ loc[t].res.kind = "settlement"
    /\ ~loc[t].res.success

\* nothing of u's is left in the pending counters
Committed(u) ==
  /\ pending[u] = 0
  /\ \A c \in Creators : pendingWT[c] = 0

\* C10: after a settlement attempted by endSession has failed on an
\* unavailable store, and with the store recovering for good, the pending
\* deduction and the pending watch time are eventually committed by the
\* timer, an explicit end or the worker's sweep.
C10_FailedSettlementHeals ==
  \A u \in Users : EndFailed(u) ~> (dbUp /\ Committed(u))

\* settleToDatabase has returned a failure to the sequential caller
SettleFailedReturned ==
  /\ pc[SeqCaller] = "done"
  /\ IsSettleCall(loc[SeqCaller].op, loc[SeqCaller].res)
  /\ ~loc[SeqCaller].res.success

\* the call of thread t has reset a counter that held an amount
ResetDone(t) ==
  \/ pc[t] = "s_reset2" /\ loc[t].pd > 0
  \/ pc[t] \in {"s_sess", "s_sessset"}

\* C13: when settleToDatabase returns success = false with no concurrent
\* writer, the pending deduction of the user and the pending watch time of
\* the creator hold the values they had before the call: a call that has
\* reset a counter does not return a failure.
C13_FailureKeepsCounters ==
  [][\A t \in AllThreads :
       (ResetDone(t) /\ pc'[t] \notin {"s_reset2", "s_sess", "s_sessset"})
         => loc'[t].res.success]_vars

\* the charges admitted for the user id u
AdmittedOf(u) == IF u \in Users THEN admitted[u] ELSE 0

\* every deductForRequest call that was started has returned
ChargesCompleted == \A t \in AllThreads : pc[t] \in {"idle", "done"}

\* C14: once concurrent charge calls have completed with no settlement in
\* between, the pending deduction is the unit cost times the number of
\* admitted charges: a rejection (insufficient balance, user not found)
\* leaves nothing in the counter.
C14_PendingCountsAdmitted ==
  ChargesCompleted =>
    \A u \in UserIds : pending[u] = COST_PER_REQUEST * AdmittedOf(u)

\* C14: the calls have completed, one rejected for its balance and one for
\* its unknown user, after a charge was admitted.
C14_Witness ==
  /\ ChargesCompleted
  /\ \E u \in Users : admitted[u] >= 1
  /\ \E t \in Threads : /\ pc[t] = "done"
                        /\ loc[t].res.error = "Insufficient balance"
  /\ \E t \in Threads : /\ pc[t] = "done"
                        /\ loc[t].res.error = "User not found"

\* C15: a deductForRequest call that does not admit, also when the store
\* fails during the call, returns a typed not-admitted result and has undone
\* its increment of the pending deduction.
C15_AdmissionFailsClosed ==
  (pc[SeqCaller] = "done" /\ loc[SeqCaller].op = "deduct"
   /\ ~loc[SeqCaller].res.success) =>
    /\ loc[SeqCaller].res.kind = "deduct"
    /\ pending[loc[SeqCaller].u] = loc[SeqCaller].np - COST_PER_REQUEST

\* C16: the pending deduction of a user is never negative.
C16_PendingNonNegative == \A u \in UserIds : pending[u] >= 0

\* endSession has returned the result of the settlement it invoked
EndReturned ==
  /\ pc[SeqCaller] = "done"
  /\ loc[SeqCaller].op = "end"
  /\ loc[SeqCaller].res.kind = "settlement"

\* C17: when endSession returns, the session record, the heartbeat and the
\* membership in the active-sessions set are gone, whether the settlement
\* it invoked succeeded or failed.
C17_EndAlwaysCleansUp ==
  EndReturned =>
    /\ session[loc[SeqCaller].u] = NoSession
    /\ heartbeat[loc[SeqCaller].u] = -1
    /\ loc[SeqCaller].u \notin activeSessions

\* C17: endSession has returned a failed settlement.
C17_Witness ==
  /\ EndReturned
  /\ ~loc[SeqCaller].res.success
  /\ loc[SeqCaller].sess # NoSession

\* nothing is left of u's session
SessionRemoved(u) ==
  /\ session[u] = NoSession
  /\ heartbeat[u] = -1
  /\ u \notin activeSessions

Max(a, b) == IF a >= b THEN a ELSE b

\* C12: when the worker's sweep ends a stale session, the watch time it
\* hands in for the creator is the time from lastSettlementTime up to the
\* last recorded heartbeat.
C12_StaleWatchTimeUpToHeartbeat ==
  [][(pc[Reaper] = "e_get" /\ pc'[Reaper] \in {"e_addwt", "s_get1"}) =>
       loc'[Reaper].wts =
         Max(0, heartbeat[loc[Reaper].u]
                - session[loc[Reaper].u].lastSettlementTime)]_vars

\* the route of a billable segment has sent its response
SegmentResponded ==
  /\ pc[SeqCaller] = "done"
  /\ loc[SeqCaller].op = "segment"

\* deductForRequest returned not-admitted to the segment route
ChargeRejected ==
  /\ loc[SeqCaller].charge.kind = "deduct"
  /\ ~loc[SeqCaller].charge.success

\* C18: the route of a billable segment returns the segment's content only
\* if deductForRequest admitted the charge; a rejected charge is answered
\* with 402, and the segment file is neither looked up nor returned.
C18_ContentOnlyWhenAdmitted ==
  SegmentResponded =>
    /\ loc[SeqCaller].res.kind = "http"
    /\ loc[SeqCaller].res.served =>
         /\ loc[SeqCaller].charge.kind = "deduct"
         /\ loc[SeqCaller].charge.success
         /\ loc[SeqCaller].res.status = 200
    /\ ChargeRejected =>
         /\ loc[SeqCaller].res.status = 402
         /\ ~loc[SeqCaller].res.fileTouched
         /\ ~loc[SeqCaller].res.served

\* C18: a segment request has been answered with 402 after an earlier one
\* was admitted.
C18_Witness ==
  /\ SegmentResponded
  /\ ChargeRejected
  /\ loc[SeqCaller].res.status = 402
  /\ \E u \in Users : admitted[u] >= 1

\* getBillingStatus has returned to the sequential caller
StatusReturned ==
  /\ pc[SeqCaller] = "done"
  /\ loc[SeqCaller].op = "status"
  /\ loc[SeqCaller].res.kind # "thrown"

C19_TeardownEndsSession ==
  [][\A t \in AllThreads :
       (/\ pc[t] = "idle"
        /\ pc'[t] # "idle"
        /\ loc'[t].op \in {"ws_close", "ws_replace"}
        /\ conn[loc'[t].u].sockSession) => pc'[t] = "e_get"]_vars

\* C21: the settlement transaction is all or nothing: whenever it takes an
\* amount from the user's balance, the creator update of the same
\* transaction has credited that amount to the creator.
C21_TransactionAllOrNothing ==
  [][\A t \in AllThreads :
       (/\ pc[t] = "s_tx"
        /\ pc'[t] # "s_tx"
        /\ balance'[loc[t].u] < balance[loc[t].u]) =>
         amountEarned'[loc[t].c] - amountEarned[loc[t].c]
           = balance[loc[t].u] - balance'[loc[t].u]]_vars

\* C22: only the transaction of settleToDatabase changes the durable ledger:
\* no step of deductForRequest, startSession, updateHeartbeat,
\* incrementRequestCount, getBillingStatus, the staleness check or endSession
\* itself changes a balance, the earnings or the watch time of a creator.
C22_OnlySettlementWritesLedger ==
  [][durable' # durable =>
       \E t \in AllThreads : pc[t] = "s_tx" /\ pc'[t] = "s_reset1"]_vars

\* C22: a billable segment has been served (charge admitted, request counted,
\* status read) under a session that has been live for a while, and the
\* durable ledger is as it was at the start.
C22_Witness ==
  /\ pc[ClientThread] = "done"
  /\ loc[ClientThread].op = "segment"
  /\ loc[ClientThread].res.kind = "http"
  /\ loc[ClientThread].res.status = 200
  /\ \E u \in Users : /\ admitted[u] >= 1
                      /\ session[u].totalRequests >= 1
                      /\ balance[u] = initBalance[u]
  /\ now > 0
  /\ \A c \in Creators : watchTime[c] = 0 /\ amountEarned[c] = 0

\* C23: watch time is accounted without gaps across the periodic settlements
\* of a session: with a healthy store, once endSession has returned, the
\* watch time credited to the creator is the whole time the session lasted.
C23_WatchTimeWithoutGaps ==
  (EndReturned /\ loc[SeqCaller].res.success /\ dbFailures = 0) =>
    \A c \in Creators : watchTime[c] = watched[c]

\* C24: whenever no charge and no settlement is in flight, what has been
\* taken from the user's durable balance plus the pending deduction is the
\* unit cost times the number of admitted charges.
C24_EveryChargeBilledOnce ==
  (\A t \in AllThreads : pc[t] \in {"idle", "done"}) =>
    \A u \in Users :
      initBalance[u] - balance[u] + pending[u]
        = COST_PER_REQUEST * admitted[u]

\* C25: a session record that endSession has deleted stays deleted until a
\* startSession stores a new one: neither settleToDatabase nor
\* incrementRequestCount writes the record back.
C25_EndedSessionStaysDeleted ==
  [][\A u \in Users :
       (session[u] = NoSession /\ session'[u] # NoSession) =>
         \E t \in AllThreads : pc[t] = "st_set" /\ loc[t].u = u]_vars

\* C26: the close handler of a socket that was displaced by a newer
\* connection of the user leaves the newer connection alone: its cleanup
\* neither removes the entry in activeConnections nor clears the timer or
\* the session of that entry.
C26_DisplacedCloseSparesNewConnection ==
  [][\A t \in AllThreads :
       (/\ pc[t] = "ws_closed"
        /\ pc'[t] # "ws_closed"
        /\ loc[t].op = "ws_replace") => conn' = conn]_vars

\* the durable balances when the sequential caller's current call began
BalanceBefore ==
  IF loc[SeqCaller].prev.op = "none" THEN initBalance
  ELSE loc[SeqCaller].prev.balance

\* the durable watch times when the sequential caller's current call began
WatchTimeBefore ==
  IF loc[SeqCaller].prev.op = "none" THEN [c \in Creators |-> 0]
  ELSE loc[SeqCaller].prev.watchTime

\* C27: when settleToDatabase returns success = false, the call has
\* committed nothing to the durable ledger: the balances and the creators'
\* watch times are what they were when the call began, also when the
\* failure is one of the fast store after the transaction.
C27_FailureCommitsNothing ==
  SettleFailedReturned =>
    /\ balance = BalanceBefore
    /\ watchTime = WatchTimeBefore

\* C28: a user id that is in the active-sessions set without a session
\* record, with no startSession or endSession running, is eventually removed
\* from the set by the worker's sweep (or has a session again).
C28_OrphanedMemberRemoved ==
  \A u \in Users :
    (AllIdle /\ u \in activeSessions /\ session[u] = NoSession)
      ~> (u \notin activeSessions \/ session[u] # NoSession)

\* C29: the reset of a settlement takes from the creator's pending watch time
\* no more than its transaction committed, so watch time an endSession added
\* between the settlement's read and its reset stays pending.
C29_ResetKeepsConcurrentWatchTime ==
  [][\A t \in AllThreads :
       (pc[t] = "s_reset2" /\ pc'[t] = "s_sess") =>
         pendingWT'[loc[t].c] >= pendingWT[loc[t].c] - loc[t].pw]_vars

\* C30: with every charge so far admitted, whatever the interleaving of the
\* charges and the settleToDatabase calls, no settlement takes the durable
\* balance of a user below zero.
C30_DurableBalanceNonNegative ==
  (\A u \in Users : admitted[u] = charges)
    => \A u \in Users : balance[u] >= 0

\* C31: deductForRequest rejects a charge for its balance only if the user's
\* unspent funds (initial balance minus the unit cost times the charges
\* admitted so far) are below one unit cost, also while a settlement of the
\* user is running; stated for a check that is the only one in flight.
C31_NoSpuriousRejection ==
  [][\A t \in AllThreads :
       (/\ pc[t] = "d_find"
        /\ pc'[t] = "d_revert"
        /\ loc[t].u \in Users
        /\ InFlight(loc[t].u) = {t}) =>
         initBalance[loc[t].u] - COST_PER_REQUEST * admitted[loc[t].u]
           < COST_PER_REQUEST]_vars

\* C32: the read-modify-write of incrementRequestCount changes only the
\* totalRequests field of a stored session: under any interleaving with
\* settleToDatabase it leaves videoId, creatorId and startTime as they are
\* and does not move lastSettlementTime back.
C32_IncrementKeepsOtherFields ==
  [][\A t \in AllThreads :
       (/\ pc[t] = "seg_inc_set"
        /\ pc'[t] # "seg_inc_set"
        /\ session[loc[t].u] # NoSession) =>
         /\ session'[loc[t].u].videoId = session[loc[t].u].videoId
         /\ session'[loc[t].u].creatorId = session[loc[t].u].creatorId
         /\ session'[loc[t].u].startTime = session[loc[t].u].startTime
         /\ session'[loc[t].u].lastSettlementTime
              >= session[loc[t].u].lastSettlementTime]_vars

\* C33: between the handlers, a settlement timer of a user is set only while
\* the user's connection is registered and the user's session is live: once
\* the session has ended, by whatever path, no timer of it is left.
C33_TimerOnlyWhileSessionLive ==
  AllIdle =>
    \A u \in Users :
      conn[u].timer # "none" => conn[u].open /\ session[u] # NoSession

\* the charge of thread t is being admitted
Admitting(t) ==
  /\ pc[t] = "d_find"
  /\ loc[t].u \in Users
  /\ admitted'[loc[t].u] > admitted[loc[t].u]

\* updateHeartbeat of thread t returns for the session's current video
HeartbeatReturning(t) ==
  /\ pc[t] = "h_set"
  /\ pc'[t] # "h_set"

\* C34, the charges: the call of every admitted charge has set the expiry
\* of the user's pending deduction counter.
C34_ChargeRefreshesPending ==
  [][\A t \in AllThreads :
       Admitting(t) => "pending" \in loc[t].refreshed]_vars

\* C34, the heartbeats: every heartbeat on the video of the session has set
\* the expiry of the session record when it returns.
C34_HeartbeatRefreshesSession ==
  [][\A t \in AllThreads :
       HeartbeatReturning(t) => "session" \in loc'[t].refreshed]_vars

\* C34, the bounded expiry: every key of the fast ledger that exists has an
\* expiry, the active-sessions set included.
C34_EveryKeyExpires ==
  /\ \A u \in UserIds : expiry.pending[u] # NoExpiry
  /\ \A c \in Creators : expiry.pendingWT[c] # NoExpiry
  /\ \A u \in Users : expiry.session[u] # NoExpiry
  /\ \A u \in Users : expiry.heartbeat[u] # NoExpiry
  /\ expiry.activeSessions # NoExpiry

\* C34: a key of the fast ledger that is in use does not expire: every
\* admitted charge refreshes the expiry of the pending deduction counter,
\* every heartbeat refreshes the expiry of the session record, and every
\* key, the active-sessions set included, has a bounded expiry.
C34_KeysInUseStayAlive ==
  /\ C34_ChargeRefreshesPending
  /\ C34_HeartbeatRefreshesSession
  /\ []C34_EveryKeyExpires

\* C35: an error raised while the sweep processes one user id does not abort
\* the sweep: the sweep ends only when no user id of its list is left, and a
\* user id leaves the list only to be checked for staleness.
C35_SweepSurvivesUserError ==
  [][/\ (pc[Reaper] \notin {"done", "r_members"} /\ pc'[Reaper] = "done")
          => (pc[Reaper] = "r_next" /\ loc[Reaper].todo = {})
     /\ (pc[Reaper] \notin {"idle", "done", "r_members"}
         /\ loc'[Reaper].todo # loc[Reaper].todo)
          => /\ pc'[Reaper] = "r_stale"
             /\ loc'[Reaper].u \in loc[Reaper].todo
             /\ loc'[Reaper].todo = loc[Reaper].todo \ {loc'[Reaper].u}]_vars

\* C35: the processing of one user id has thrown, and the sweep is checking
\* the other user id of its list.
C35_Witness ==
  /\ pc[Reaper] = "r_stale"
  /\ loc[Reaper].res = Thrown
  /\ loc[Reaper].todo = {}
  /\ activeSessions = UserIds

\* the segment route has responded to a request whose balance update could
\* not be delivered over the user's connection
PushFailed ==
  /\ SegmentResponded
  /\ loc[SeqCaller].push = "failed"

\* C36: when the balance update of an admitted segment charge cannot be
\* delivered, the charge stays admitted (it is still in the pending
\* deduction) and the request goes on to the segment file: the response is
\* the segment's content, or 404 only when the file is missing.
C36_PushFailureKeepsAdmission ==
  PushFailed =>
    /\ loc[SeqCaller].charge.kind = "deduct"
    /\ loc[SeqCaller].charge.success
    /\ pending[loc[SeqCaller].u] = loc[SeqCaller].charge.amountSettled
    /\ loc[SeqCaller].res.fileTouched
    /\ \/ loc[SeqCaller].res.status = 200 /\ loc[SeqCaller].res.served
       \/ loc[SeqCaller].res.status = 404

\* C36: the segment has been served although the balance update of its
\* charge could not be delivered.
C36_Witness ==
  /\ PushFailed
  /\ loc[SeqCaller].res.status = 200
  /\ loc[SeqCaller].res.served
  /\ admitted[loc[SeqCaller].u] >= 1

\* updateHeartbeat of thread t, on the video of the session, takes a step
HeartbeatStep(t) ==
  /\ pc[t] \in {"h_get", "h_set"}
  /\ pc'[t] # pc[t]
  /\ session[loc[t].u].videoId = loc[t].v

\* the time since the last settlement of u's session
SinceSettlement(u) == now - session[u].lastSettlementTime

\* updateHeartbeat settles nothing and writes nothing durable itself: on the
\* video of the session it goes from its read to its heartbeat write and
\* returns, and leaves the ledger and the pending counters as they are
HeartbeatSettlesNothing(t) ==
  /\ durable' = durable
  /\ pending' = pending
  /\ pendingWT' = pendingWT
  /\ pc'[t] \in {"h_set", "done"}

\* C37 as stated: for a heartbeat on the video of the session,
\* updateHeartbeat signals that settlement is due exactly when the time since
\* lastSettlementTime exceeds the settlement period, and it settles nothing
\* and writes nothing durable itself.
C37_DueWhenPeriodExceeded ==
  [][\A t \in AllThreads :
       HeartbeatStep(t) =>
         /\ HeartbeatSettlesNothing(t)
         /\ pc[t] = "h_set" =>
              (loc'[t].res.shouldSettle
                 <=> SinceSettlement(loc[t].u) > SETTLEMENT_INTERVAL_MS)]_vars

\* C37, amended: settlement is signalled as due exactly when the time since
\* lastSettlementTime is at least the settlement period.
C37_DueWhenPeriodReached ==
  [][\A t \in AllThreads :
       HeartbeatStep(t) =>
         /\ HeartbeatSettlesNothing(t)
         /\ pc[t] = "h_set" =>
              (loc'[t].res.shouldSettle
                 <=> SinceSettlement(loc[t].u) >= SETTLEMENT_INTERVAL_MS)]_vars

\* C37: a heartbeat on the video of a session that was started by a switch
\* has returned with settlement due, exactly one settlement period after the
\* session's lastSettlementTime, and nothing durable has changed since the
\* switch settled.
C37_Witness ==
  /\ pc[ClientThread] = "done"
  /\ loc[ClientThread].op = "heartbeat"
  /\ loc[ClientThread].res.shouldSettle
  /\ \E u \in Users :
       /\ session[u].lastSettlementTime > 0
       /\ SinceSettlement(u) = SETTLEMENT_INTERVAL_MS

\* endSession of thread t, called for a user without a session record,
\* takes its step
EndWithoutSession(t) ==
  /\ pc[t] = "e_get"
  /\ pc'[t] # "e_get"
  /\ SessionOf(loc[t].u) = NoSession

\* the call of thread t has returned r to its caller
Returned(t, r) ==
  /\ loc'[t].res = r
  /\ pc'[t] = IF loc[t].stack = <<>> THEN "done" ELSE Head(loc[t].stack)

\* C38: endSession for a user without a session record is a no-op: its one
\* step returns null and changes no pending counter, no heartbeat, no
\* membership in the active-sessions set and no durable value.
C38_EndWithoutSessionIsNoOp ==
  [][\A t \in AllThreads :
       EndWithoutSession(t) =>
         /\ Returned(t, NullResult)
         /\ pending' = pending
         /\ pendingWT' = pendingWT
         /\ heartbeat' = heartbeat
         /\ activeSessions' = activeSessions
         /\ durable' = durable]_vars

\* C38: endSession has returned null for a user without a session record
\* while a charge of the user is pending, and the charge is still pending.
C38_Witness ==
  /\ pc[ClientThread] = "done"
  /\ loc[ClientThread].op = "end"
  /\ loc[ClientThread].res = NullResult
  /\ \E u \in Users : /\ session[u] = NoSession
                      /\ pending[u] >= COST_PER_REQUEST
                      /\ balance[u] = initBalance[u]

====
